---- MODULE Spec2Model ----
(***************************************************************************)
(* Promo Video AI: the App component (src/App.tsx lines 39-258) and the    *)
(* generateVideo service (src/App.tsx lines 261-333) as one state machine. *)
(* Every await of generateVideo is split in two steps: the step that       *)
(* issues the asynchronous operation and the step in which it settles.     *)
(***************************************************************************)
EXTENDS Integers, Sequences, FiniteSets, TLC

VARIABLES
    prompt,        \* useState prompt: a sequence of characters
    imageFile,     \* useState imageFile: a file name or Null
    imagePreview,  \* useState imagePreview: an object URL or Null
    status,        \* useState status: idle, loading, success, error
    errorMessage,  \* useState errorMessage
    videoUrl,      \* useState videoUrl: an object URL or Null
    apiKey,        \* process.env.API_KEY, "" when unset or empty
    pc,            \* the await generateVideo is suspended on, or "idle"
    call,          \* state of the promise generateVideo returned
    operation,     \* the local variable operation of generateVideo
    trace,         \* what the latest handleSubmit did, in order; call,
                   \* operation and trace are kept while the result of that
                   \* handleSubmit is shown and forgotten when the user leaves it
    liveUrls,      \* object URLs created and not revoked, with what each shows
    nextUrl,       \* number of the next object URL
    previewUrl,    \* objectUrl held by the cleanup of the effect on imageFile
    mounted,       \* whether the App component is mounted
    intervalRef,   \* loadingMessageIntervalRef.current, 0 for null
    intervals,     \* the running intervals: id |-> messageIndex of its callback
    loadingMessage \* useState loadingMessage

vars == <<prompt, imageFile, imagePreview, status, errorMessage, videoUrl,
          apiKey, pc, call, operation, trace, liveUrls, nextUrl,
          previewUrl, mounted, intervalRef, intervals, loadingMessage>>

uiInput == <<prompt, imageFile, imagePreview, previewUrl>>

timer == <<intervalRef, intervals, loadingMessage>>

-----------------------------------------------------------------------------
(* Bounds of the model. *)

MaxPromptLen == 2

MaxPolls == 2

MaxUrls == 2

-----------------------------------------------------------------------------
(* Values. *)

Null == "null"

Chars == {" ", "a"}

Whitespace == {" ", "\t", "\n"}

Prompts == UNION {[1..n -> Chars] : n \in 0..MaxPromptLen}

Files == {"shoe.png", "logo.png"}

ApiKeys == {"", "k1"}

Uris == {"https://video/1?alt=media", "https://video/2?alt=media"}

\* An optional value is a sequence of length 0 (undefined) or 1.
Undefined == <<>>

Some(x) == <<x>>

\* The shapes of operation.response the service can answer with.
UriFields == {Undefined, Some("")} \cup {Some(u) : u \in Uris}

VideoFields == {Undefined} \cup {Some([uri |-> u]) : u \in UriFields}

GeneratedVideosFields ==
    {Undefined, Some(<<>>)} \cup {Some(<<[video |-> v]>>) : v \in VideoFields}

ResponseFields ==
    {Undefined} \cup {Some([generatedVideos |-> g]) : g \in GeneratedVideosFields}

Operations ==
    {[done |-> FALSE, response |-> Undefined]}
        \cup {[done |-> TRUE, response |-> r] : r \in ResponseFields}

NoOperation == [done |-> FALSE, response |-> Undefined]

\* What the awaited operations reject with.
Error(m) == [isError |-> TRUE, message |-> m]

ProgressEvent == [isError |-> FALSE, message |-> "[object ProgressEvent]"]

SdkErrors == {Error("got status: 429 RESOURCE_EXHAUSTED")}

FetchErrors == {Error("Failed to fetch")}

\* What fetch resolves with.
FetchResponses ==
    {[ok |-> TRUE, statusText |-> "OK"],
     [ok |-> FALSE, statusText |-> "Forbidden"],
     [ok |-> FALSE, statusText |-> "Not Found"]}

-----------------------------------------------------------------------------
(* Pure helpers. *)

RECURSIVE TrimStart(_)
TrimStart(s) ==
    IF s = <<>> THEN <<>>
    ELSE IF Head(s) \in Whitespace THEN TrimStart(Tail(s))
    ELSE s

RECURSIVE TrimEnd(_)
TrimEnd(s) ==
    IF s = <<>> THEN <<>>
    ELSE IF s[Len(s)] \in Whitespace THEN TrimEnd(SubSeq(s, 1, Len(s) - 1))
    ELSE s

\* String.prototype.trim
Trim(s) == TrimEnd(TrimStart(s))

PromptRejectedNoTrim(p) == p = <<>>

\* !prompt.trim()
PromptRejected(p) == Trim(p) = <<>>

CredentialMissingNever(key) == FALSE

\* !process.env.API_KEY
CredentialMissing(key) == key = ""

\* operation.response?.generatedVideos?.[0]?.video?.uri
UriOf(op) ==
    IF op.response = Undefined THEN Undefined
    ELSE LET g == op.response[1].generatedVideos IN
         IF g = Undefined THEN Undefined
         ELSE IF Len(g[1]) = 0 THEN Undefined
         ELSE LET v == g[1][1].video IN
              IF v = Undefined THEN Undefined ELSE v[1].uri

NoUriShallow(op) == op.response = Undefined

\* !operation.response?.generatedVideos?.[0]?.video?.uri
NoUri(op) == UriOf(op) = Undefined \/ UriOf(op) = Some("")

\* A template literal prints an undefined value as "undefined".
LinkString(u) == IF u = Undefined THEN "undefined" ELSE u[1]

DownloadTargetNoKey(link, key) == link

\* `${downloadLink}&key=${process.env.API_KEY}`
DownloadTarget(link, key) == link \o "&key=" \o key

\* err instanceof Error ? err.message : "An unknown error occurred."
CatchMessage(err) ==
    IF err.isError THEN err.message ELSE "An unknown error occurred."

ObjectUrl(n) == "blob:" \o ToString(n)

\* URL.createObjectURL(blob): the new entry of liveUrls
Handle(n, blob) == [url |-> ObjectUrl(n), of |-> blob]

RevokeNothing(urls, u) == urls

\* URL.revokeObjectURL(u)
Revoke(urls, u) == {h \in urls : h.url # u}

LOADING_MESSAGES ==
    <<"Warming up the AI director...",
      "Scouting virtual locations...",
      "Casting digital actors...",
      "Adjusting the lighting...",
      "Action! The AI is filming...",
      "Processing dailies...",
      "Editing the final cut...",
      "Adding special effects...",
      "Rendering the masterpiece...">>

NextIndexSaturating(i) ==
    IF i + 1 < Len(LOADING_MESSAGES) THEN i + 1 ELSE i

\* (messageIndex + 1) % LOADING_MESSAGES.length
NextIndex(i) == (i + 1) % Len(LOADING_MESSAGES)

\* window.setInterval returns an id no running or remembered interval has
FreshInterval(running) ==
    CHOOSE n \in 1..(Cardinality(running \cup {intervalRef}) + 1) :
        n \notin running \cup {intervalRef}

-----------------------------------------------------------------------------
(* The entries of trace. *)

Progress(m) == [t |-> "progress", v |-> m, arg |-> ""]

Call(f, a) == [t |-> "call", v |-> f, arg |-> a]

Ret(f, a) == [t |-> "ret", v |-> f, arg |-> a]

Step(s) == [t |-> "step", v |-> s, arg |-> ""]

MsgEncoding == "Encoding image..."

MsgSending == "Sending request to AI..."

MsgWarming == "AI is warming up... This may take a few minutes."

MsgChecking == "Checking video generation status..."

MsgDownloading == "Downloading generated video..."

MsgFinalizing == "Finalizing video..."

MsgInvalidInput == "Please enter a prompt for your video."

MsgNoCredential == "API_KEY environment variable not set"

MsgEmptyResult == "Video generation failed or returned no URI."

PollIntervalMs == 10000

Count(tr, t, v) == Cardinality({i \in 1..Len(tr) : tr[i].t = t /\ tr[i].v = v})

Throw(m) == [t |-> "throw", v |-> m, arg |-> ""]

FileType(f) == "image/png"

DoneArg(op) == IF op.done THEN "done" ELSE "pending"

SubmitEventsTwice(image) ==
    <<Progress(MsgSending), Call("generateVideos", image),
      Call("generateVideos", image)>>

\* onProgress("Sending request to AI..."); ai.models.generateVideos({...})
SubmitEvents(image) == <<Progress(MsgSending), Call("generateVideos", image)>>

\* generateVideo from the credential check to its first await
StartEvents(file) ==
    IF file # Null
    THEN <<Progress(MsgEncoding), Call("readAsDataURL", file)>>
    ELSE SubmitEvents("undefined")

CheckEventsReversed == <<Call("getVideosOperation", ""), Progress(MsgChecking)>>

CheckEventsSilent == <<Call("getVideosOperation", "")>>

\* onProgress("Checking video generation status..."); getVideosOperation
CheckEvents == <<Progress(MsgChecking), Call("getVideosOperation", "")>>

LoopContinuesNever(op) == FALSE

LoopContinuesAlways(op) == TRUE

\* while (!operation.done)
LoopContinues(op) == ~op.done

ResponseOkAlways(resp) == TRUE

\* response.ok
ResponseOk(resp) == resp.ok

Polls(tr) == Count(tr, "call", "getVideosOperation")

-----------------------------------------------------------------------------
(* What renderContent shows, and the effect on status. *)

FormShownAlways == mounted

\* case 'idle' and default of renderContent
FormShown == mounted /\ status = "idle"

\* case 'error' of renderContent
ErrorShown == mounted /\ status = "error"

\* case 'success' of renderContent
SuccessShown == mounted /\ status = "success"

\* useEffect(..., [status]) after status became new: the cleanup of the
\* previous run, then the body
StatusEffect(new) ==
    IF ~mounted \/ new = status
    THEN UNCHANGED timer
    ELSE LET running == DOMAIN intervals \ {intervalRef} IN
         IF new = "loading"
         THEN LET id == FreshInterval(running) IN
              /\ loadingMessage' = LOADING_MESSAGES[1]
              /\ intervals' = [i \in running \cup {id} |->
                                  IF i = id THEN 0 ELSE intervals[i]]
              /\ intervalRef' = id
         ELSE /\ intervals' = [i \in running |-> intervals[i]]
              /\ intervalRef' = 0
              /\ UNCHANGED loadingMessage

-----------------------------------------------------------------------------
(* How a step of generateVideo ends. *)

\* generateVideo suspends on the next await
Continue(newPc, op, tr) ==
    /\ pc' = newPc
    /\ operation' = op
    /\ trace' = tr
    /\ UNCHANGED <<call, status, errorMessage, videoUrl, liveUrls, nextUrl, timer>>

RejectKeepsLoading(err, op, tr) ==
    /\ pc' = "idle"
    /\ operation' = op
    /\ call' = "rejected"
    /\ trace' = tr \o <<Throw(err.message)>>
    /\ errorMessage' = "Failed to generate video: " \o CatchMessage(err)
    /\ UNCHANGED <<status, timer, videoUrl, liveUrls, nextUrl>>

\* generateVideo throws and the catch of handleSubmit runs
Reject(err, op, tr) ==
    /\ pc' = "idle"
    /\ operation' = op
    /\ call' = "rejected"
    /\ trace' = tr \o <<Throw(err.message)>>
    /\ errorMessage' = "Failed to generate video: " \o CatchMessage(err)
    /\ status' = "error"
    /\ StatusEffect("error")
    /\ UNCHANGED <<videoUrl, liveUrls, nextUrl>>

ValidateLate(op, tr) ==
    IF NoUri(op)
    THEN Reject(Error(MsgEmptyResult), op,
             tr \o <<Progress(MsgDownloading),
                     Call("fetch", DownloadTarget(LinkString(UriOf(op)), apiKey)),
                     Ret("fetch", "OK"), Step("validate")>>)
    ELSE Continue("fetch", op,
             tr \o <<Progress(MsgDownloading),
                     Call("fetch", DownloadTarget(LinkString(UriOf(op)), apiKey)),
                     Step("validate")>>)

\* the result check and the start of the download
Validate(op, tr) ==
    IF NoUri(op)
    THEN Reject(Error(MsgEmptyResult), op, tr \o <<Step("validate")>>)
    ELSE Continue("fetch", op,
             tr \o <<Step("validate"), Progress(MsgDownloading),
                     Call("fetch", DownloadTarget(LinkString(UriOf(op)), apiKey))>>)

\* the test of the poll loop, then its body or what follows the loop
LoopTest(op, tr) ==
    IF LoopContinues(op)
    THEN Continue("setTimeout", op,
             tr \o <<Call("setTimeout", ToString(PollIntervalMs))>>)
    ELSE Validate(op, tr)

-----------------------------------------------------------------------------
(* The form, rendered while status is idle. *)

SetPrompt(p) ==
    /\ FormShown
    /\ p # prompt
    /\ prompt' = p
    /\ UNCHANGED <<imageFile, imagePreview, status, errorMessage, videoUrl,
                   apiKey, pc, call, operation, trace, liveUrls, nextUrl,
                   previewUrl, mounted, timer>>

\* handleImageChange, then the effect on imageFile
HandleImageChange(f) ==
    /\ FormShown
    /\ imagePreview = Null
    /\ nextUrl <= MaxUrls
    /\ imageFile' = f
    /\ imagePreview' = ObjectUrl(nextUrl)
    /\ previewUrl' = ObjectUrl(nextUrl)
    /\ liveUrls' = liveUrls \cup {Handle(nextUrl, f)}
    /\ nextUrl' = nextUrl + 1
    /\ UNCHANGED <<prompt, status, errorMessage, videoUrl, apiKey, pc, call,
                   operation, trace, mounted, timer>>

\* handleRemoveImage, then the cleanup of the effect on imageFile
HandleRemoveImage ==
    /\ FormShown
    /\ imagePreview # Null
    /\ imageFile' = Null
    /\ imagePreview' = Null
    /\ previewUrl' = Null
    /\ liveUrls' = IF imageFile # Null THEN Revoke(liveUrls, previewUrl) ELSE liveUrls
    /\ UNCHANGED <<prompt, status, errorMessage, videoUrl, apiKey, pc, call,
                   operation, trace, nextUrl, mounted, timer>>

\* handleSubmit with a prompt it rejects
HandleSubmitInvalid ==
    /\ FormShown
    /\ PromptRejected(prompt)
    /\ errorMessage' = MsgInvalidInput
    /\ status' = "error"
    /\ StatusEffect("error")
    /\ call' = "none"
    /\ trace' = <<>>
    /\ UNCHANGED <<uiInput, videoUrl, apiKey, pc, operation, liveUrls, nextUrl,
                   mounted>>

\* handleSubmit up to the first await of generateVideo
HandleSubmit ==
    /\ FormShown
    /\ ~PromptRejected(prompt)
    /\ status' = "loading"
    /\ StatusEffect("loading")
    /\ errorMessage' = ""
    /\ videoUrl' = Null
    /\ call' = "pending"
    /\ operation' = NoOperation
    /\ IF CredentialMissing(apiKey)
       THEN pc' = "catch" /\ trace' = <<>>
       ELSE /\ trace' = StartEvents(imageFile)
            /\ pc' = IF imageFile # Null THEN "readAsDataURL" ELSE "generateVideos"
    /\ UNCHANGED <<uiInput, apiKey, liveUrls, nextUrl, mounted>>

\* the catch of handleSubmit after generateVideo threw before any await
HandleSubmitCatch ==
    /\ pc = "catch"
    /\ Reject(Error(MsgNoCredential), operation, trace)
    /\ UNCHANGED <<uiInput, apiKey, mounted>>

-----------------------------------------------------------------------------
(* The awaits of generateVideo settling. *)

ReaderOnLoad ==
    /\ pc = "readAsDataURL"
    /\ Continue("generateVideos", operation,
           trace \o <<Ret("readAsDataURL", "ok")>>
                 \o SubmitEvents(FileType(imageFile)))
    /\ UNCHANGED <<uiInput, apiKey, mounted>>

ReaderOnError ==
    /\ pc = "readAsDataURL"
    /\ Reject(ProgressEvent, operation, trace \o <<Ret("readAsDataURL", "error")>>)
    /\ UNCHANGED <<uiInput, apiKey, mounted>>

GenerateVideosResolve(op) ==
    /\ pc = "generateVideos"
    /\ LoopTest(op, trace \o <<Ret("generateVideos", DoneArg(op)),
                               Progress(MsgWarming)>>)
    /\ UNCHANGED <<uiInput, apiKey, mounted>>

GenerateVideosReject(err) ==
    /\ pc = "generateVideos"
    /\ Reject(err, operation, trace \o <<Ret("generateVideos", "error")>>)
    /\ UNCHANGED <<uiInput, apiKey, mounted>>

TimerFires ==
    /\ pc = "setTimeout"
    /\ Polls(trace) < MaxPolls
    /\ Continue("getVideosOperation", operation,
           trace \o <<Ret("setTimeout", "")>> \o CheckEvents)
    /\ UNCHANGED <<uiInput, apiKey, mounted>>

GetVideosOperationResolve(op) ==
    /\ pc = "getVideosOperation"
    /\ op.done \/ Polls(trace) < MaxPolls
    /\ LoopTest(op, trace \o <<Ret("getVideosOperation", DoneArg(op))>>)
    /\ UNCHANGED <<uiInput, apiKey, mounted>>

GetVideosOperationRejectRetry(err) ==
    /\ pc = "getVideosOperation"
    /\ Continue("setTimeout", operation,
           trace \o <<Ret("getVideosOperation", "error"),
                      Call("setTimeout", ToString(PollIntervalMs))>>)
    /\ UNCHANGED <<uiInput, apiKey, mounted>>

GetVideosOperationReject(err) ==
    /\ pc = "getVideosOperation"
    /\ Reject(err, operation, trace \o <<Ret("getVideosOperation", "error")>>)
    /\ UNCHANGED <<uiInput, apiKey, mounted>>

FetchResolve(resp) ==
    /\ pc = "fetch"
    /\ LET tr == trace \o <<Ret("fetch", resp.statusText)>> IN
       IF ~ResponseOk(resp)
       THEN Reject(Error("Failed to download video: " \o resp.statusText),
                   operation, tr)
       ELSE Continue("blob", operation, tr \o <<Call("blob", "")>>)
    /\ UNCHANGED <<uiInput, apiKey, mounted>>

FetchReject(err) ==
    /\ pc = "fetch"
    /\ Reject(err, operation, trace \o <<Ret("fetch", "error")>>)
    /\ UNCHANGED <<uiInput, apiKey, mounted>>

\* the body is read, generateVideo returns, handleSubmit shows the video
BlobResolve ==
    /\ pc = "blob"
    /\ nextUrl <= MaxUrls
    /\ trace' = trace \o <<Ret("blob", "ok"), Progress(MsgFinalizing),
                           Step("createObjectURL")>>
    /\ liveUrls' = liveUrls \cup {Handle(nextUrl, "video")}
    /\ nextUrl' = nextUrl + 1
    /\ videoUrl' = ObjectUrl(nextUrl)
    /\ status' = "success"
    /\ StatusEffect("success")
    /\ call' = "fulfilled"
    /\ pc' = "idle"
    /\ UNCHANGED <<uiInput, errorMessage, apiKey, operation, mounted>>

BlobReject(err) ==
    /\ pc = "blob"
    /\ Reject(err, operation, trace \o <<Ret("blob", "error")>>)
    /\ UNCHANGED <<uiInput, apiKey, mounted>>

-----------------------------------------------------------------------------
(* The buttons of the error and success views. *)

TryAgainResets ==
    /\ ErrorShown
    /\ prompt' = <<>>
    /\ imageFile' = Null
    /\ imagePreview' = Null
    /\ previewUrl' = Null
    /\ videoUrl' = Null
    /\ errorMessage' = ""
    /\ status' = "idle"
    /\ StatusEffect("idle")
    /\ liveUrls' = IF imageFile # Null THEN Revoke(liveUrls, previewUrl) ELSE liveUrls
    /\ call' = "none"
    /\ operation' = NoOperation
    /\ trace' = <<>>
    /\ UNCHANGED <<apiKey, pc, nextUrl, mounted>>

\* Try Again: () => setStatus('idle')
TryAgain ==
    /\ ErrorShown
    /\ status' = "idle"
    /\ StatusEffect("idle")
    /\ call' = "none"
    /\ operation' = NoOperation
    /\ trace' = <<>>
    /\ UNCHANGED <<uiInput, errorMessage, videoUrl, apiKey, pc, liveUrls,
                   nextUrl, mounted>>

\* Create Another Video: handleReset, then the cleanup of the effect on imageFile
HandleReset ==
    /\ SuccessShown
    /\ prompt' = <<>>
    /\ imageFile' = Null
    /\ imagePreview' = Null
    /\ previewUrl' = Null
    /\ videoUrl' = Null
    /\ errorMessage' = ""
    /\ status' = "idle"
    /\ StatusEffect("idle")
    /\ liveUrls' = IF imageFile # Null THEN Revoke(liveUrls, previewUrl) ELSE liveUrls
    /\ call' = "none"
    /\ operation' = NoOperation
    /\ trace' = <<>>
    /\ UNCHANGED <<apiKey, pc, nextUrl, mounted>>

-----------------------------------------------------------------------------
(* The interval of the loading message, and the end of the component. *)

\* the callback of setInterval, every 4000 ms
Tick(id) ==
    /\ id \in DOMAIN intervals
    /\ intervals' = [intervals EXCEPT ![id] = NextIndex(@)]
    /\ loadingMessage' = LOADING_MESSAGES[NextIndex(intervals[id]) + 1]
    /\ UNCHANGED <<prompt, imageFile, imagePreview, status, errorMessage,
                   videoUrl, apiKey, pc, call, operation, trace, liveUrls,
                   nextUrl, previewUrl, mounted, intervalRef>>

\* the component unmounts: the cleanups of both effects run
Unmount ==
    /\ mounted
    /\ mounted' = FALSE
    /\ intervals' = [i \in DOMAIN intervals \ {intervalRef} |-> intervals[i]]
    /\ liveUrls' = IF imageFile # Null THEN Revoke(liveUrls, previewUrl) ELSE liveUrls
    /\ previewUrl' = Null
    /\ UNCHANGED <<prompt, imageFile, imagePreview, status, errorMessage,
                   videoUrl, apiKey, pc, call, operation, trace, nextUrl,
                   intervalRef, loadingMessage>>

-----------------------------------------------------------------------------

Init ==
    /\ prompt = <<>>
    /\ imageFile = Null
    /\ imagePreview = Null
    /\ status = "idle"
    /\ errorMessage = ""
    /\ videoUrl = Null
    /\ apiKey \in ApiKeys
    /\ pc = "idle"
    /\ call = "none"
    /\ operation = NoOperation
    /\ trace = <<>>
    /\ liveUrls = {}
    /\ nextUrl = 1
    /\ previewUrl = Null
    /\ mounted = TRUE
    /\ intervalRef = 0
    /\ intervals = <<>>
    /\ loadingMessage = ""

Next ==
    \/ \E p \in Prompts : SetPrompt(p)
    \/ \E f \in Files : HandleImageChange(f)
    \/ HandleRemoveImage
    \/ HandleSubmitInvalid
    \/ HandleSubmit
    \/ HandleSubmitCatch
    \/ ReaderOnLoad
    \/ ReaderOnError
    \/ \E op \in Operations : GenerateVideosResolve(op)
    \/ \E err \in SdkErrors : GenerateVideosReject(err)
    \/ TimerFires
    \/ \E op \in Operations : GetVideosOperationResolve(op)
    \/ \E err \in SdkErrors : GetVideosOperationReject(err)
    \/ \E resp \in FetchResponses : FetchResolve(resp)
    \/ \E err \in FetchErrors : FetchReject(err)
    \/ BlobResolve
    \/ \E err \in FetchErrors : BlobReject(err)
    \/ TryAgain
    \/ HandleReset
    \/ \E id \in DOMAIN intervals : Tick(id)
    \/ Unmount

Spec == Init /\ [][Next]_vars

-----------------------------------------------------------------------------
(* What the properties below read off trace. *)

Events(tr, t, v) == {i \in 1..Len(tr) : tr[i].t = t /\ tr[i].v = v}

Settled == call \in {"fulfilled", "rejected"}

WhitespaceOnly(p) == \A i \in 1..Len(p) : p[i] \in {" ", "\t", "\n"}

ProgressLog(tr) ==
    LET sel == SelectSeq(tr, LAMBDA e : e.t = "progress")
    IN  [i \in 1..Len(sel) |-> sel[i].v]

IsPrefix(s, r) == Len(s) <= Len(r) /\ \A i \in 1..Len(s) : s[i] = r[i]

\* A response with the media reference missing at one of its levels.
MissingReference ==
    {Undefined} \cup
    {Some([generatedVideos |-> g]) :
        g \in {Undefined, Some(<<>>), Some(<<[video |-> Undefined]>>),
               Some(<<[video |-> Some([uri |-> Undefined])]>>)}}

WithReference(u) ==
    Some([generatedVideos |-> Some(<<[video |-> Some([uri |-> Some(u)])]>>)])

Validated == Events(trace, "step", "validate") # {}

FailedDownloads(tr) ==
    {i \in 1..Len(tr) :
        tr[i].t = "ret" /\ tr[i].v = "fetch" /\ tr[i].arg \notin {"OK", "error"}}

-----------------------------------------------------------------------------
(* C1: a submit with an empty or whitespace-only prompt ends at once in     *)
(* status error with the input message, and starts nothing: no call of      *)
(* generateVideo, no network call, nothing left pending.                    *)
C1_BlankPromptFailsFast ==
    [][(status = "idle" /\ WhitespaceOnly(prompt) /\ status' # "idle")
           => /\ status' = "error"
              /\ errorMessage' = MsgInvalidInput
              /\ errorMessage' # ""
              /\ trace' = <<>>
              /\ call' = "none"
              /\ pc' = "idle"]_vars

C1_Witness ==
    /\ status = "error"
    /\ call = "none"
    /\ prompt # <<>>
    /\ WhitespaceOnly(prompt)
    /\ errorMessage = MsgInvalidInput

(* C2 as stated: every call of generateVideo that has settled attempted the *)
(* submission exactly once.                                                 *)
C2_SubmitExactlyOnce ==
    Settled => Cardinality(Events(trace, "call", "generateVideos")) = 1

(* C2 amended: the submission is attempted at most once; a settled call     *)
(* attempted it exactly once when the credential is set and the image, if   *)
(* any, was read, and not at all otherwise.                                 *)
C2_SubmitOnceWhenReached ==
    LET n == Cardinality(Events(trace, "call", "generateVideos"))
        readFailed == \E i \in 1..Len(trace) : trace[i] = Ret("readAsDataURL", "error")
    IN  /\ n <= 1
        /\ Settled => (n = 1 <=> (apiKey # "" /\ ~readFailed))
        /\ pc \in {"generateVideos", "setTimeout", "getVideosOperation",
                   "fetch", "blob"} => n = 1

C2_Witness ==
    /\ call = "fulfilled"
    /\ Cardinality(Events(trace, "call", "getVideosOperation")) = MaxPolls
    /\ Cardinality(Events(trace, "call", "generateVideos")) = 1

(* C3: with the credential missing, generateVideo does nothing but throw:   *)
(* no network call, no image read, no progress message, and the call ends   *)
(* with the missing-credential message.                                     *)
C3_MissingCredentialFailsFast ==
    apiKey = "" =>
        /\ \A i \in 1..Len(trace) : trace[i].t = "throw"
        /\ pc \in {"idle", "catch"}
        /\ call \in {"none", "pending", "rejected"}
        /\ call = "pending" => pc = "catch" /\ trace = <<>>
        /\ call = "rejected" =>
              /\ trace = <<Throw("API_KEY environment variable not set")>>
              /\ errorMessage =
                    "Failed to generate video: API_KEY environment variable not set"

C3_Witness ==
    /\ apiKey = ""
    /\ call = "rejected"
    /\ status = "error"
    /\ imageFile # Null

(* C4 as stated: the result is validated only after at least one status     *)
(* check.                                                                   *)
C4_CheckBeforeValidate ==
    \A i \in Events(trace, "step", "validate") :
        \E j \in 1..(i - 1) : trace[j] = Call("getVideosOperation", "")

(* C4 amended: the result is validated after at least one status check      *)
(* when the submit response reports done = false, and with no status check  *)
(* at all when the submit response already reports done.                    *)
C4_CheckBeforeValidateUnlessDone ==
    \A i \in Events(trace, "step", "validate") :
        LET checked == \E j \in 1..(i - 1) : trace[j] = Call("getVideosOperation", "")
            pending == \E j \in 1..(i - 1) : trace[j] = Ret("generateVideos", "pending")
            done == \E j \in 1..(i - 1) : trace[j] = Ret("generateVideos", "done")
        IN  /\ pending \/ done
            /\ pending => checked
            /\ done => ~checked

C4_Witness ==
    /\ Validated
    /\ \E j \in 1..Len(trace) : trace[j] = Ret("generateVideos", "pending")
    /\ Cardinality(Events(trace, "call", "getVideosOperation")) = 1

(* C5: after the submit response or a status check reports done, the call   *)
(* starts no further sleep and no further status check; after one reports   *)
(* done = false the next thing it does is sleep; and validation and the     *)
(* download happen only with operation.done true.                           *)
C5_PollingStopsAtDone ==
    /\ \A i \in 1..Len(trace) :
          (trace[i].t = "ret" /\ trace[i].arg = "done") =>
              \A j \in (i + 1)..Len(trace) :
                  ~(trace[j].t = "call"
                      /\ trace[j].v \in {"setTimeout", "getVideosOperation"})
    /\ \A i \in 1..Len(trace) :
          (trace[i].t = "ret" /\ trace[i].arg = "pending") =>
              /\ i < Len(trace)
              /\ trace[i + 1].t = "progress" \/ trace[i + 1].t = "call"
              /\ trace[i + 1].t = "call" => trace[i + 1].v = "setTimeout"
              /\ trace[i + 1].t = "progress" =>
                    /\ i + 1 < Len(trace)
                    /\ trace[i + 2] = Call("setTimeout", "10000")
    /\ (Validated \/ Events(trace, "call", "fetch") # {}) => operation.done
    /\ pc \in {"fetch", "blob"} => operation.done
    /\ pc \in {"setTimeout", "getVideosOperation"} => ~operation.done

C5_Witness ==
    /\ pc = "fetch"
    /\ Cardinality(Events(trace, "call", "getVideosOperation")) = MaxPolls
    /\ Cardinality(Events(trace, "call", "setTimeout")) = MaxPolls

(* C6: when the validated job state lacks the media reference at any level, *)
(* the call has failed with the empty-result message, made no download      *)
(* request and created no object URL.                                       *)
C6_MissingReferenceFails ==
    (Validated /\ operation.response \in MissingReference) =>
        /\ call = "rejected"
        /\ pc = "idle"
        /\ errorMessage =
              "Failed to generate video: Video generation failed or returned no URI."
        /\ Events(trace, "call", "fetch") = {}
        /\ Events(trace, "step", "createObjectURL") = {}
        /\ videoUrl = Null
        /\ trace[Len(trace)] = Throw("Video generation failed or returned no URI.")

C6_Witness ==
    /\ Validated
    /\ call = "rejected"
    /\ operation.response = Some([generatedVideos |-> Some(<<[video |-> Undefined]>>)])

(* C7: when the validated job state carries a media reference, exactly one  *)
(* download request has been issued, to that reference followed by &key=    *)
(* and the credential, and a done answer precedes it; no call issues more   *)
(* than one download request.                                               *)
C7_OneDownloadWithCredential ==
    /\ Cardinality(Events(trace, "call", "fetch")) <= 1
    /\ \A u \in Uris :
          (Validated /\ operation.response = WithReference(u)) =>
              /\ Cardinality(Events(trace, "call", "fetch")) = 1
              /\ \A i \in Events(trace, "call", "fetch") :
                    /\ trace[i].arg = u \o "&key=" \o apiKey
                    /\ \E j \in 1..(i - 1) :
                          trace[j].t = "ret" /\ trace[j].arg = "done"

C7_Witness ==
    /\ call = "fulfilled"
    /\ \E i \in 1..Len(trace) :
          trace[i] = Call("fetch", "https://video/2?alt=media&key=k1")

(* C8: the step in which a download answers with a status that is not ok    *)
(* ends the call: status error, the download message with the status text,  *)
(* videoUrl null, no object URL created, no Finalizing message.             *)
C8_FailedDownloadFails ==
    [][(FailedDownloads(trace) = {} /\ FailedDownloads(trace') # {})
           => /\ status' = "error"
              /\ call' = "rejected"
              /\ pc' = "idle"
              /\ videoUrl' = Null
              /\ liveUrls' = liveUrls
              /\ nextUrl' = nextUrl
              /\ Events(trace', "progress", MsgFinalizing) = {}
              /\ Events(trace', "step", "createObjectURL") = {}
              /\ \A i \in FailedDownloads(trace') :
                    errorMessage' =
                        "Failed to generate video: Failed to download video: "
                            \o trace'[i].arg]_vars

C8_Witness ==
    /\ status = "error"
    /\ videoUrl = Null
    /\ errorMessage = "Failed to generate video: Failed to download video: Forbidden"
    /\ FailedDownloads(trace) # {}

(* The progress messages of a successful call: whether it had an image,     *)
(* the second message, the number of status checks.                         *)
ExpectedProgress(image, warming, n) ==
    (IF image THEN <<"Encoding image...">> ELSE <<>>)
        \o <<"Sending request to AI...", warming>>
        \o [i \in 1..n |-> "Checking video generation status..."]
        \o <<"Downloading generated video...", "Finalizing video...">>

ProgressAsExpected(warming) ==
    /\ status = "success" =>
          ProgressLog(trace) =
              ExpectedProgress(imageFile # Null, warming,
                  Cardinality(Events(trace, "call", "getVideosOperation")))
    /\ status \in {"loading", "error"} =>
          \E n \in 0..Len(trace) :
              IsPrefix(ProgressLog(trace),
                       ExpectedProgress(imageFile # Null, warming, n))

PhaseOf(e) ==
    IF e.t = "throw" THEN "failed"
    ELSE IF e.v \in {"Encoding image...", "readAsDataURL"} THEN "encode"
    ELSE IF e.v \in {"Sending request to AI...", "generateVideos"} THEN "submit"
    ELSE IF e.v \in {"AI is warming up... This may take a few minutes.", "setTimeout",
                     "Checking video generation status...", "getVideosOperation"}
         THEN "poll"
    ELSE IF e.v = "validate" THEN "validate"
    ELSE IF e.v \in {"Downloading generated video...", "fetch", "blob"} THEN "download"
    ELSE "finalize"

PhaseRank(ph) ==
    CASE ph = "encode" -> 1
      [] ph = "submit" -> 2
      [] ph = "poll" -> 3
      [] ph = "validate" -> 4
      [] ph = "download" -> 5
      [] ph = "finalize" -> 6
      [] ph = "failed" -> 7

(* C10: the entries of trace are in phase order encode, submit, poll,       *)
(* validate, download, finalize; every operation started is answered before *)
(* anything else is done; no operation but the sleep and the status check   *)
(* is started twice; and after a failed operation, a failed validation or a *)
(* download that is not ok the call does nothing but throw.                 *)
C10_PhasesInOrder ==
    /\ \A i, j \in 1..Len(trace) :
          i < j => PhaseRank(PhaseOf(trace[i])) <= PhaseRank(PhaseOf(trace[j]))
    /\ \A i \in 1..Len(trace) :
          trace[i].t = "call" =>
              /\ i = Len(trace) => pc = trace[i].v
              /\ i < Len(trace) =>
                    trace[i + 1].t = "ret" /\ trace[i + 1].v = trace[i].v
    /\ \A f \in {"readAsDataURL", "generateVideos", "fetch", "blob"} :
          Cardinality(Events(trace, "call", f)) <= 1
    /\ \A s \in {"validate", "createObjectURL"} :
          Cardinality(Events(trace, "step", s)) <= 1
    /\ \A i \in 1..Len(trace) :
          (\/ trace[i].t = "throw"
           \/ (trace[i].t = "ret" /\ trace[i].arg = "error")
           \/ i \in FailedDownloads(trace))
          => /\ call = "rejected"
             /\ pc = "idle"
             /\ i = Len(trace) \/ (i + 1 = Len(trace) /\ trace[i + 1].t = "throw")
    /\ (call = "rejected" /\ trace # <<>>) => trace[Len(trace)].t = "throw"
    /\ Events(trace, "call", "readAsDataURL") # {} =>
          (status # "idle" => imageFile # Null)

C10_Witness ==
    /\ call = "fulfilled"
    /\ Events(trace, "call", "readAsDataURL") # {}
    /\ Cardinality(Events(trace, "call", "getVideosOperation")) = MaxPolls
    /\ Events(trace, "step", "createObjectURL") # {}

(* C11: while the component is mounted, every object URL of a generated     *)
(* video that has not been revoked is the one on display: after Create      *)
(* Another Video or a new generation none is left from an earlier call.     *)
C11_VideoHandlesReleased ==
    mounted => \A h \in liveUrls : h.of = "video" => h.url = videoUrl

(* C12: status success goes with a video URL and no error message, status   *)
(* error with an error message and no video URL, status loading with        *)
(* neither; a call that returned left status success with a live object     *)
(* URL, a call that threw left status error.                                *)
C12_NoPartialSuccess ==
    /\ status = "success" =>
          /\ videoUrl # Null
          /\ errorMessage = ""
          /\ call = "fulfilled"
          /\ [url |-> videoUrl, of |-> "video"] \in liveUrls
    /\ status = "error" => errorMessage # "" /\ videoUrl = Null
    /\ status = "loading" => videoUrl = Null /\ errorMessage = "" /\ call = "pending"
    /\ call = "fulfilled" => status = "success"
    /\ call = "rejected" => status = "error"

C12_Witness ==
    /\ status = "error"
    /\ call = "rejected"
    /\ videoUrl = Null
    /\ errorMessage = "Failed to generate video: Failed to fetch"
    /\ Events(trace, "call", "blob") # {}

\* The operations of a call that failed: a rejected await, or a download
\* answered with a status that is not ok.
Failures(tr) ==
    {i \in 1..Len(tr) : tr[i].t = "ret" /\ tr[i].arg = "error"}
        \cup FailedDownloads(tr)

(* C13: after the first failed operation of a call (image read, submit,     *)
(* status check, download) the call starts nothing more and ends with one   *)
(* throw and one error message; once a call has failed, no operation is     *)
(* started until the user is back at the form and submits again.            *)
C13_NoAutomaticRetry ==
    [][/\ \A i \in Failures(trace') :
             /\ \A j \in (i + 1)..Len(trace') : trace'[j].t = "throw"
             /\ Cardinality({j \in 1..Len(trace') : trace'[j].t = "throw"}) = 1
             /\ call' = "rejected"
             /\ pc' = "idle"
             /\ status' = "error"
             /\ errorMessage' =
                   "Failed to generate video: "
                       \o (IF trace'[i].v = "readAsDataURL"
                           THEN "An unknown error occurred."
                           ELSE trace'[Len(trace')].v)
       /\ call = "rejected" =>
             /\ pc' = "idle"
             /\ trace' = trace \/ (trace' = <<>> /\ status' = "idle")
       /\ (pc = "idle" /\ pc' # "idle") =>
             /\ status = "idle"
             /\ call = "none"
             /\ mounted
             /\ trace = <<>>]_vars

C13_Witness ==
    /\ call = "rejected"
    /\ status = "error"
    /\ Cardinality(Events(trace, "call", "getVideosOperation")) = MaxPolls
    /\ trace[Len(trace) - 1] = Ret("getVideosOperation", "error")
    /\ errorMessage = "Failed to generate video: got status: 429 RESOURCE_EXHAUSTED"

(* C14 as stated: in a poll iteration the Checking message is emitted after *)
(* that iteration's status check has returned.                              *)
C14_ProgressAfterStatusCheck ==
    \A i \in Events(trace, "progress", MsgChecking) :
        /\ i > 1
        /\ trace[i - 1].t = "ret"
        /\ trace[i - 1].v = "getVideosOperation"

(* C14 amended: a poll iteration sleeps for the 10-second interval, then    *)
(* emits the Checking message, then issues the status check: the message    *)
(* directly follows the end of the sleep and directly precedes the request. *)
C14_ProgressBeforeStatusCheck ==
    /\ \A i \in Events(trace, "progress", "Checking video generation status...") :
          /\ i > 2
          /\ trace[i - 2] = Call("setTimeout", "10000")
          /\ trace[i - 1] = Ret("setTimeout", "")
          /\ i < Len(trace)
          /\ trace[i + 1] = Call("getVideosOperation", "")
    /\ \A j \in Events(trace, "call", "getVideosOperation") :
          /\ j > 1
          /\ trace[j - 1] = Progress("Checking video generation status...")
    /\ \A k \in Events(trace, "ret", "setTimeout") :
          /\ k < Len(trace)
          /\ trace[k + 1] = Progress("Checking video generation status...")

C14_Witness ==
    /\ pc = "getVideosOperation"
    /\ Cardinality(Events(trace, "progress", MsgChecking)) = MaxPolls
    /\ Cardinality(Events(trace, "ret", "getVideosOperation")) = MaxPolls - 1

-----------------------------------------------------------------------------
(* The specification for termination: the service may answer pending for    *)
(* ever. Iterations of the poll loop beyond MaxPolls are not recorded in    *)
(* trace; every awaited operation and timer eventually completes.           *)

\* one more sleep ends, beyond the iterations trace records
TimerFiresBeyond ==
    /\ pc = "setTimeout"
    /\ Polls(trace) >= MaxPolls
    /\ pc' = "getVideosOperation"
    /\ UNCHANGED <<prompt, imageFile, imagePreview, status, errorMessage,
                   videoUrl, apiKey, call, operation, trace, liveUrls, nextUrl,
                   previewUrl, mounted, timer>>

PendingBeyondTimesOut ==
    /\ pc = "getVideosOperation"
    /\ Polls(trace) >= MaxPolls
    /\ Reject(Error("Timed out"), operation, trace)
    /\ UNCHANGED <<uiInput, apiKey, mounted>>

\* one more status check answers done = false, and the loop goes on
PendingBeyond ==
    /\ pc = "getVideosOperation"
    /\ Polls(trace) >= MaxPolls
    /\ LoopContinues(NoOperation)
    /\ pc' = "setTimeout"
    /\ UNCHANGED <<prompt, imageFile, imagePreview, status, errorMessage,
                   videoUrl, apiKey, call, operation, trace, liveUrls, nextUrl,
                   previewUrl, mounted, timer>>

\* a step of the call in flight: an awaited operation or timer completes
CallStep ==
    \/ HandleSubmitCatch
    \/ ReaderOnLoad
    \/ ReaderOnError
    \/ \E op \in Operations : GenerateVideosResolve(op)
    \/ \E err \in SdkErrors : GenerateVideosReject(err)
    \/ TimerFires
    \/ TimerFiresBeyond
    \/ \E op \in Operations : GetVideosOperationResolve(op)
    \/ \E err \in SdkErrors : GetVideosOperationReject(err)
    \/ PendingBeyond
    \/ \E resp \in FetchResponses : FetchResolve(resp)
    \/ \E err \in FetchErrors : FetchReject(err)
    \/ BlobResolve
    \/ \E err \in FetchErrors : BlobReject(err)

LiveNext ==
    \/ Next
    \/ TimerFiresBeyond
    \/ PendingBeyond

LiveSpec == Init /\ [][LiveNext]_vars /\ WF_vars(CallStep)

InPollLoop ==
    /\ status = "loading"
    /\ pc \in {"setTimeout", "getVideosOperation"}
    /\ ~operation.done

(* C15: status leaves loading only with a done answer, a failed operation   *)
(* or a missing credential, never by an iteration bound or timeout; and     *)
(* every behaviour either always leaves loading again, or from some point   *)
(* on stays in loading inside the poll loop, sleeping and checking the      *)
(* status again and again.                                                  *)
C15_SettlesOrPollsForever ==
    /\ [][(status = "loading" /\ status' # "loading")
             => \/ operation'.done
                \/ Failures(trace') # {}
                \/ apiKey = ""]_vars
    /\ \/ [](status = "loading" => <>(status # "loading"))
       \/ /\ <>[]InPollLoop
          /\ []<>(pc = "setTimeout")
          /\ []<>(pc = "getVideosOperation")

C15_Witness ==
    /\ InPollLoop
    /\ pc = "setTimeout"
    /\ Polls(trace) = MaxPolls

(* C16: a call is in flight exactly while status is loading; it starts only *)
(* from status idle with no call in flight; while status is loading the     *)
(* user changes nothing, status changes only by the call settling, and the  *)
(* call in flight is never replaced: its trace only grows.                  *)
C16_OneCallInFlight ==
    [][/\ (pc' # "idle") <=> (call' = "pending")
       /\ (call' = "pending") <=> (status' = "loading")
       /\ (call # "pending" /\ call' = "pending") =>
             /\ status = "idle"
             /\ pc = "idle"
             /\ mounted
       /\ status = "loading" =>
             /\ UNCHANGED <<prompt, imageFile, imagePreview, errorMessage, videoUrl>>
                   \/ call' \in {"fulfilled", "rejected"}
             /\ status' # "loading" => call' \in {"fulfilled", "rejected"}
       /\ call = "pending" =>
             /\ call' \in {"pending", "fulfilled", "rejected"}
             /\ IsPrefix(trace, trace')]_vars

C16_Witness ==
    /\ status = "loading"
    /\ pc = "blob"
    /\ mounted
    /\ imageFile # Null
    /\ Len(prompt) = MaxPromptLen

(* C17: leaving the error view (Try Again) changes status to idle and       *)
(* leaves prompt, imageFile, imagePreview, errorMessage and videoUrl as     *)
(* they are; leaving the success view (Create Another Video) changes status *)
(* to idle, empties prompt and errorMessage and sets imageFile,             *)
(* imagePreview and videoUrl to null.                                       *)
C17_TryAgainKeepsResetClears ==
    [][/\ (status = "error" /\ status' # "error") =>
             /\ status' = "idle"
             /\ UNCHANGED <<prompt, imageFile, imagePreview, errorMessage,
                            videoUrl, liveUrls, loadingMessage>>
       /\ (status = "success" /\ status' # "success") =>
             /\ status' = "idle"
             /\ prompt' = <<>>
             /\ imageFile' = Null
             /\ imagePreview' = Null
             /\ videoUrl' = Null
             /\ errorMessage' = ""]_vars

C17_Witness ==
    /\ status = "idle"
    /\ errorMessage = "Failed to generate video: Video generation failed or returned no URI."
    /\ prompt # <<>>
    /\ imageFile # Null
    /\ imagePreview # Null

(* C18: at most one loading-message interval exists; one exists exactly     *)
(* while the component is mounted and status is loading, so it is cleared   *)
(* when status leaves loading and on unmount; loadingMessage is the first   *)
(* entry of LOADING_MESSAGES when loading begins, a tick is always possible *)
(* while the interval runs, and each change of the message while loading    *)
(* moves it to the next entry, from the last entry back to the first.       *)
C18_LoadingMessageTimer ==
    [][/\ Cardinality(DOMAIN intervals') <= 1
       /\ (DOMAIN intervals' # {}) <=> (mounted' /\ status' = "loading")
       /\ DOMAIN intervals' # {} =>
             /\ DOMAIN intervals' = {intervalRef'}
             /\ intervals'[intervalRef'] \in 0..(Len(LOADING_MESSAGES) - 1)
             /\ loadingMessage' = LOADING_MESSAGES[intervals'[intervalRef'] + 1]
       /\ DOMAIN intervals # {} => ENABLED <<\E id \in DOMAIN intervals : Tick(id)>>_vars
       /\ (status # "loading" /\ status' = "loading") =>
             /\ loadingMessage' = LOADING_MESSAGES[1]
             /\ intervals'[intervalRef'] = 0
       /\ (status = "loading" /\ status' = "loading" /\ loadingMessage' # loadingMessage) =>
             \E i \in 1..Len(LOADING_MESSAGES) :
                /\ loadingMessage = LOADING_MESSAGES[i]
                /\ loadingMessage' =
                      LOADING_MESSAGES[IF i = Len(LOADING_MESSAGES) THEN 1 ELSE i + 1]]_vars

C18_Witness ==
    /\ mounted
    /\ status = "loading"
    /\ pc = "fetch"
    /\ DOMAIN intervals = {intervalRef}
    /\ intervals[intervalRef] = Len(LOADING_MESSAGES) - 1
    /\ loadingMessage = LOADING_MESSAGES[Len(LOADING_MESSAGES)]

(* The unrevoked object URLs that were created for an image file. *)
ImageHandles == {h \in liveUrls : h.of \in Files}

(* C19: at most one unrevoked image-preview object URL exists, and it is    *)
(* the one created for the current imageFile and held in imagePreview; the  *)
(* URL of a file that was removed, replaced or reset is revoked, so no      *)
(* image URL is live when imageFile is null or the component is unmounted;  *)
(* imagePreview is null whenever imageFile is null.                         *)
C19_OnePreviewUrl ==
    /\ Cardinality(ImageHandles) <= 1
    /\ \A h \in ImageHandles :
          /\ mounted
          /\ imageFile = h.of
          /\ imagePreview = h.url
    /\ (mounted /\ imageFile # Null) => ImageHandles # {}
    /\ imageFile = Null => (imagePreview = Null /\ ImageHandles = {})

C19_Witness ==
    /\ mounted
    /\ status = "idle"
    /\ imageFile = "logo.png"
    /\ imagePreview = ObjectUrl(MaxUrls)
    /\ liveUrls = {Handle(MaxUrls, "logo.png")}

====
